---- MODULE Spec2Model ----
(***************************************************************************)
(* Model of sparselm.model._base.CVXEstimator: the fit orchestrator, the   *)
(* problem assembler, the parameter translator and the warm-start cache.   *)
(*                                                                         *)
(* One estimator instance is modelled.  fit is single-threaded and         *)
(* synchronous, so one call of fit is one action.  The convex solver is    *)
(* an external black box: each solve ends with one of the statuses cvxpy   *)
(* can report, chosen nondeterministically.  The coefficient vector is     *)
(* modelled symbolically as "the solution of the problem that was solved": *)
(* its length, the data the problem was built from and the values the live *)
(* optimization parameters held when the solver ran.                       *)
(*                                                                         *)
(* The estimator is used with fit_intercept = False and sample_weight =    *)
(* None (the defaults), for which preprocessing hands X and y on unchanged *)
(* and _set_intercept sets intercept_ to 0.                                *)
(***************************************************************************)
EXTENDS Integers, Sequences, FiniteSets, TLC

\* ---------------------------------------------------------------- bounds
MaxFeatures == 2    \* feature counts 0..MaxFeatures (0 is rejected by validation)
MaxEntry == 1       \* the varying entry of X ranges over 0..MaxEntry
MaxTarget == 0      \* the entry of y ranges over 0..MaxTarget
MaxEta == 1         \* the hyperparameter eta ranges over 0..MaxEta
MaxBuilds == 3      \* cap on the number of Problem Descriptors ever built

\* ------------------------------------------------------- python values
\* An attribute that was never assigned (hasattr is false) is the empty
\* tuple, an assigned one is the one-element tuple holding its value.
Absent == << >>
Some(v) == << v >>
hasattr(a) == a # Absent
Get(a) == a[1]

PyNone == [kind |-> "None"]

\* ------------------------------------------------------------- the data
\* Feature matrices of one sample and f features; the matrices of one
\* shape differ from each other in a single entry.
XOf(f, v) == << [j \in 1..f |-> IF j = 1 THEN v ELSE 0] >>
XValues == { XOf(f, v) : f \in 0..MaxFeatures, v \in 0..MaxEntry }
YValues == { << w >> : w \in 0..MaxTarget }

n_samples(X) == Len(X)
n_features(X) == IF Len(X) = 0 THEN 0 ELSE Len(X[1])

\* numpy.array_equal on two 2-D arrays: the shapes must agree, then every
\* entry is compared.
array_equal2(a, b) ==
    /\ n_samples(a) = n_samples(b)
    /\ n_features(a) = n_features(b)
    /\ \A i \in 1..n_samples(a) : \A j \in 1..n_features(a) : a[i][j] = b[i][j]

\* numpy.array_equal on two 1-D arrays.
array_equal1(a, b) ==
    /\ Len(a) = Len(b)
    /\ \A i \in 1..Len(a) : a[i] = b[i]

\* self._validate_data(X, y, ...): X needs at least one sample and one
\* feature and y one target per sample.
validate_data(X, y) ==
    /\ n_samples(X) >= 1
    /\ n_features(X) >= 1
    /\ Len(y) = n_samples(X)

\* ------------------------------------------------------ hyperparameters
InstalledSolvers == { "ECOS" }    \* cp.installed_solvers()
SolverValues == { "None", "not-a-real-solver" }
SolverOptionsValues == { "None", "list" }
EtaValues == 0..MaxEta

\* The two estimator variants: the base declaration (no solver-
\* parameterized hyperparameters, the attribute is None) and a variant that
\* declares "eta", the parameter TikhonovMixin reads.
CvxDeclNone == [kind |-> "None", names |-> {}]
CvxDeclEta == [kind |-> "dict", names |-> {"eta"}]
Variants == { CvxDeclNone, CvxDeclEta }

VARIABLES
    cvx_parameter_constraints,  \* the class attribute _cvx_parameter_constraints
    params,       \* the constructor hyperparameters (get_params(deep=False))
    canonicals,   \* canonicals_: Absent or Some(Problem Descriptor)
    cached_X,     \* cached_X_: Absent or Some(matrix)
    cached_y,     \* cached_y_: Absent or Some(vector)
    coef,         \* coef_: Absent or Some(PyNone) or Some(solution)
    intercept,    \* intercept_: Absent or Some(0)
    nbuilds,      \* number of Problem Descriptors built so far (object identities)
    last          \* observation of the most recent call

vars == << cvx_parameter_constraints, params, canonicals, cached_X, cached_y,
           coef, intercept, nbuilds, last >>

estimator == << canonicals, cached_X, cached_y, coef, intercept >>

NoCall == [op |-> "none", X |-> << >>, y |-> << >>, outcome |-> "none",
           status |-> "none", nAssemble |-> 0, nPush |-> 0, nSolve |-> 0,
           trace |-> << >>]


Statuses == { "optimal", "infeasible", "unbounded", "solver_error" }

ParamsValues ==
    [warm_start : BOOLEAN, solver : SolverValues,
     solver_options : SolverOptionsValues, eta : EtaValues]

\* ------------------------------------------------- parameter validation
\* validate_parameter_constraints over _parameter_constraints merged with
\* _cvx_parameter_constraints: "solver" is an installed backend or None,
\* "solver_options" is a dict or None, "warm_start" is a boolean.
validate_params_skip(p, decl) == TRUE

validate_params(p, decl) ==
    /\ p.warm_start \in BOOLEAN
    /\ p.solver \in InstalledSolvers \cup { "None" }
    /\ p.solver_options \in { "dict", "None" }

\* --------------------------------------------------- parameter translator
\* _generate_params: one cvxpy Parameter per hyperparameter named in
\* _cvx_parameter_constraints, holding the hyperparameter's current value;
\* an empty namespace when the declaration is None.
generate_params(p, decl) ==
    LET cvx_constraints == IF decl.kind = "None" THEN {} ELSE decl.names
    IN  [name \in cvx_constraints |-> p[name]]

\* _set_param_values, for a declaration that is a dict: every declared
\* hyperparameter's current value is written into the live parameter of
\* the same name.  (The values of this model are scalars, which are
\* assigned as they are.)
set_param_values_stale(parameters, p, decl) == parameters

set_param_values(parameters, p, decl) ==
    [name \in DOMAIN parameters |->
        IF name \in decl.names THEN p[name] ELSE parameters[name]]

\* ---------------------------------------------------------- builder hooks
\* _generate_auxiliaries (default): None.
generate_auxiliaries(X, y, beta, parameters) == PyNone

\* _generate_objective of the variant (abstract in the base class): the
\* expression the variant builds from the arguments it is given.  beta is
\* the identity of the decision variable, parameters the names of the live
\* parameters the expression refers to.
generate_objective(X, y, beta, parameters, auxiliaries) ==
    [expr |-> "objective", X |-> X, y |-> y, beta |-> beta,
     parameters |-> DOMAIN parameters, auxiliaries |-> auxiliaries]

\* _generate_constraints (default): None.
generate_constraints(X, y, beta, parameters, auxiliaries) == PyNone

\* ------------------------------------------------------ problem assembler
\* One event of a call: the function called and what it was given.
Event(call, beta, parameters, auxiliaries) ==
    [call |-> call, beta |-> beta, parameters |-> parameters,
     auxiliaries |-> auxiliaries]

NoArg == [kind |-> "no argument"]

\* generate_problem, statement by statement: the descriptor it assigns to
\* canonicals_ and the calls it makes, in order.  id is the identity of
\* the new decision variable and of the new CVXCanonicals.
assemble_objective_first(X, y, p, decl, id) ==
    LET beta == n_features(X)
        parameters == generate_params(p, decl)
        objective == generate_objective(X, y, id, parameters, NoArg)
        auxiliaries == generate_auxiliaries(X, y, id, parameters)
        constraints == generate_constraints(X, y, id, parameters, auxiliaries)
    IN  [canonicals |->
            [id |-> id, beta |-> beta, X |-> X, y |-> y,
             parameters |-> parameters, auxiliaries |-> auxiliaries,
             objective |-> objective, constraints |-> constraints,
             problem |-> [minimize |-> objective, constraints |-> constraints]],
         events |->
            << [call |-> "Variable", beta |-> id, len |-> beta],
               Event("_generate_params", NoArg, NoArg, NoArg),
               Event("_generate_objective", id, parameters, NoArg),
               Event("_generate_auxiliaries", id, parameters, NoArg),
               Event("_generate_constraints", id, parameters, auxiliaries),
               Event("canonicals_", id, parameters, auxiliaries) >>]

assemble(X, y, p, decl, id) ==
    LET beta == n_features(X)                                       \* line 397
        parameters == generate_params(p, decl)                      \* line 398
        auxiliaries == generate_auxiliaries(X, y, id, parameters)   \* line 399
        objective ==                                                \* line 400
            generate_objective(X, y, id, parameters, auxiliaries)
        constraints ==                                              \* line 401
            generate_constraints(X, y, id, parameters, auxiliaries)
    IN  [canonicals |->                                       \* lines 402-410
            [id |-> id, beta |-> beta, X |-> X, y |-> y,
             parameters |-> parameters, auxiliaries |-> auxiliaries,
             objective |-> objective, constraints |-> constraints,
             problem |-> [minimize |-> objective, constraints |-> constraints]],
         events |->
            << [call |-> "Variable", beta |-> id, len |-> beta],
               Event("_generate_params", NoArg, NoArg, NoArg),
               Event("_generate_auxiliaries", id, parameters, NoArg),
               Event("_generate_objective", id, parameters, auxiliaries),
               Event("_generate_constraints", id, parameters, auxiliaries),
               Event("canonicals_", id, parameters, auxiliaries) >>]

\* generate_problem: a fresh decision variable of length X.shape[1], the
\* parameters, and a brand-new CVXCanonicals.  id is the identity of the
\* new object; X and y are the data the objective was built from.
generate_problem(X, y, p, decl, id) == assemble(X, y, p, decl, id).canonicals

\* _solve: problem.solve(...) followed by beta.value.  After a solve that
\* ends infeasible or unbounded cvxpy leaves beta.value at None.
solve(canon, status) ==
    IF status = "optimal"
    THEN [kind |-> "ndarray", len |-> canon.beta, X |-> canon.X, y |-> canon.y,
          parameters |-> canon.parameters]
    ELSE PyNone

\* The solution of the problem built from (X, y) with hyperparameters p.
Solution(X, y, p, decl) ==
    [kind |-> "ndarray", len |-> n_features(X), X |-> X, y |-> y,
     parameters |-> generate_params(p, decl)]

\* ------------------------------------------------------------------- fit
\* The estimator during a call: its attributes and what the call did so far.
Self ==
    [canonicals |-> canonicals, cached_X |-> cached_X, cached_y |-> cached_y,
     coef |-> coef, intercept |-> intercept, nbuilds |-> nbuilds,
     outcome |-> "running", status |-> "none",
     nAssemble |-> 0, nPush |-> 0, nSolve |-> 0, trace |-> << >>]

call_generate_problem(s, X, y) ==
    [s EXCEPT !.canonicals = Some(generate_problem(X, y, params,
                                     cvx_parameter_constraints, s.nbuilds + 1)),
              !.nbuilds = @ + 1,
              !.nAssemble = @ + 1,
              !.trace = @ \o assemble(X, y, params, cvx_parameter_constraints,
                                      s.nbuilds + 1).events]

PushEvent == Event("_set_param_values", NoArg, NoArg, NoArg)

\* `parameter in self._cvx_parameter_constraints` raises TypeError when the
\* declaration is None; `self.canonicals_.parameters` raises AttributeError
\* when there is no canonicals_ or it has no parameter of that name.
call_set_param_values(s) ==
    IF cvx_parameter_constraints.kind = "None"
    THEN [s EXCEPT !.nPush = @ + 1, !.outcome = "TypeError",
                   !.trace = Append(@, PushEvent)]
    ELSE IF \/ ~hasattr(s.canonicals)
            \/ ~(cvx_parameter_constraints.names
                    \subseteq DOMAIN Get(s.canonicals).parameters)
    THEN [s EXCEPT !.nPush = @ + 1, !.outcome = "AttributeError",
                   !.trace = Append(@, PushEvent)]
    ELSE [s EXCEPT !.nPush = @ + 1,
                   !.trace = Append(@, PushEvent),
                   !.canonicals = Some([Get(@) EXCEPT !.parameters =
                        set_param_values(@, params, cvx_parameter_constraints)])]

\* line 171: not hasattr(self, "canonicals_") or self.warm_start is False
needs_build_no_cold(canon, warm_start) == ~hasattr(canon)

needs_build_cold_only(canon, warm_start) == warm_start = FALSE

needs_build_always(canon, warm_start) == TRUE

needs_build(canon, warm_start) == ~hasattr(canon) \/ warm_start = FALSE

\* lines 171-172
fit_build(s, X, y) ==
    IF needs_build(s.canonicals, params.warm_start)
    THEN call_generate_problem(s, X, y)
    ELSE s

\* lines 176-179: the cache is written only when it does not exist yet
fit_cache(s, X, y) ==
    [s EXCEPT !.cached_X = IF ~hasattr(@) THEN Some(X) ELSE @,
              !.cached_y = IF ~hasattr(@) THEN Some(y) ELSE @]

\* lines 174-187
fit_warm(s, X, y) ==
    IF params.warm_start = TRUE
    THEN LET c == fit_cache(s, X, y)
         IN  IF \/ ~array_equal2(Get(c.cached_X), X)
                \/ ~array_equal1(Get(c.cached_y), y)
             THEN call_generate_problem(c, X, y)
             ELSE call_set_param_values(c)
    ELSE s

SolveEvent == Event("problem.solve", NoArg, NoArg, NoArg)
CoefEvent == Event("coef_", NoArg, NoArg, NoArg)
InterceptEvent == Event("_set_intercept", NoArg, NoArg, NoArg)

\* lines 189-194
fit_solve(s, status) ==
    IF s.outcome # "running" THEN s
    ELSE IF params.solver_options \notin { "None", "dict" }
    THEN [s EXCEPT !.outcome = "TypeError"]
    ELSE IF status = "solver_error"
    THEN [s EXCEPT !.nSolve = @ + 1, !.status = status, !.outcome = "SolverError",
                   !.trace = Append(@, SolveEvent)]
    ELSE [s EXCEPT !.nSolve = @ + 1, !.status = status,
                   !.coef = Some(solve(Get(s.canonicals), status)),
                   !.intercept = Some(0),
                   !.outcome = "returned",
                   !.trace = @ \o << SolveEvent, CoefEvent, InterceptEvent >>]

\* lines 149-197
fit_result(X, y, status) ==
    IF ~validate_data(X, y)
    THEN [Self EXCEPT !.outcome = "ValueError"]
    ELSE IF ~validate_params(params, cvx_parameter_constraints)
    THEN [Self EXCEPT !.outcome = "InvalidParameterError"]
    ELSE fit_solve(fit_warm(fit_build(Self, X, y), X, y), status)

Observe(op, X, y, s) ==
    [op |-> op, X |-> X, y |-> y, outcome |-> s.outcome, status |-> s.status,
     nAssemble |-> s.nAssemble, nPush |-> s.nPush, nSolve |-> s.nSolve,
     trace |-> s.trace]

Commit(s) ==
    /\ s.nbuilds <= MaxBuilds
    /\ canonicals' = s.canonicals
    /\ cached_X' = s.cached_X
    /\ cached_y' = s.cached_y
    /\ coef' = s.coef
    /\ intercept' = s.intercept
    /\ nbuilds' = s.nbuilds

Init ==
    /\ cvx_parameter_constraints \in Variants
    /\ params = [warm_start |-> FALSE, solver |-> "None",
                 solver_options |-> "None", eta |-> 0]
    /\ canonicals = Absent
    /\ cached_X = Absent
    /\ cached_y = Absent
    /\ coef = Absent
    /\ intercept = Absent
    /\ nbuilds = 0
    /\ last = NoCall

\* estimator.fit(X, y)
Fit ==
    \E X \in XValues, y \in YValues, status \in Statuses :
        LET s == fit_result(X, y, status)
        IN  /\ Commit(s)
            /\ last' = Observe("fit", X, y, s)
            /\ UNCHANGED << cvx_parameter_constraints, params >>

\* estimator.generate_problem(X, y) called directly by the user
GenerateProblem ==
    \E X \in XValues, y \in YValues :
        /\ validate_data(X, y)
        /\ LET s == call_generate_problem(Self, X, y)
           IN  /\ Commit(s)
               /\ last' = Observe("generate_problem", X, y,
                                  [s EXCEPT !.outcome = "returned"])
        /\ UNCHANGED << cvx_parameter_constraints, params >>

\* estimator.set_params(name=value) / assignment of a constructor attribute
SetParam(p) ==
    /\ Cardinality({ n \in DOMAIN p : p[n] # params[n] }) = 1
    /\ p.eta # params.eta => cvx_parameter_constraints.kind = "dict"
    /\ params' = p
    /\ last' = NoCall
    /\ UNCHANGED << cvx_parameter_constraints, canonicals, cached_X,
                    cached_y, coef, intercept, nbuilds >>

SetParams == \E p \in ParamsValues : SetParam(p)

Next == Fit \/ GenerateProblem \/ SetParams

Spec == Init /\ [][Next]_vars

\* An estimator constructed with warm_start=True on which only fit is
\* called and warm_start is never switched off.
InitWarm ==
    /\ cvx_parameter_constraints \in Variants
    /\ params = [warm_start |-> TRUE, solver |-> "None",
                 solver_options |-> "None", eta |-> 0]
    /\ canonicals = Absent
    /\ cached_X = Absent
    /\ cached_y = Absent
    /\ coef = Absent
    /\ intercept = Absent
    /\ nbuilds = 0
    /\ last = NoCall

SetParamsWarm == \E p \in ParamsValues : p.warm_start = TRUE /\ SetParam(p)

NextWarm == Fit \/ SetParamsWarm

SpecWarm == InitWarm /\ [][NextWarm]_vars


\* ======================================================== observations
IsFit(l) == l.op = "fit"

\* the call got past input and hyperparameter validation (line 169)
Validated(l) == l.outcome \in { "returned", "TypeError", "SolverError" }

Returned(l) == l.outcome = "returned"

SolverFailed(l) == l.status \in { "infeasible", "unbounded", "solver_error" }

\* the hyperparameters violate a constraint declared in _parameter_constraints
ViolatesDeclared(p) ==
    \/ p.solver \notin InstalledSolvers \cup { "None" }
    \/ p.solver_options = "list"


\* ================================================================ claims

\* C1 (as claimed): every fit that returns normally leaves coef_ with
\* length equal to the feature count of the X passed to that fit, on the
\* rebuild path and on the warm-start reuse path.  Stated here for the
\* fits whose solve ended optimal, so that a None coefficient vector is not
\* what refutes it.
C1_ShapeInvariant ==
    (IsFit(last) /\ Returned(last) /\ last.status = "optimal")
        => Get(coef).len = n_features(last.X)

\* C2 (as claimed): in a sequence of fits that all run with
\* warm_start=True, the solver is never invoked on a Problem Descriptor
\* built from data other than the (X, y) of the current call.
C2_SolvedOnCurrentData ==
    (IsFit(last) /\ last.nSolve > 0)
        => /\ array_equal2(Get(canonicals).X, last.X)
           /\ array_equal1(Get(canonicals).y, last.y)

\* C3 (as claimed): whenever both canonicals_ and the cached training data
\* exist, the cached (X, y) is the data the current Problem Descriptor was
\* built from.  Stated for the variant that declares "eta", whose
\* warm-start fits do not end in the TypeError of the parameter push.
C3_CacheConsistency ==
    (cvx_parameter_constraints = CvxDeclEta
        /\ hasattr(canonicals) /\ hasattr(cached_X) /\ hasattr(cached_y))
        => /\ array_equal2(Get(cached_X), Get(canonicals).X)
           /\ array_equal1(Get(cached_y), Get(canonicals).y)

\* C4 (as claimed): a fit with warm start enabled that finds no cached
\* training data builds the Problem Descriptor from that call's (X, y) and
\* then caches that (X, y), also when a descriptor already exists from a
\* cold fit or from a direct generate_problem call.  Stated as: when such a
\* fit returns, canonicals_ is a descriptor built from that call's (X, y)
\* and the cache holds that (X, y).
C4_FirstWarmFitBuilds ==
    [][ (IsFit(last') /\ Returned(last') /\ params.warm_start = TRUE
            /\ ~hasattr(cached_X))
        => /\ array_equal2(Get(canonicals').X, last'.X)
           /\ array_equal1(Get(canonicals').y, last'.y)
           /\ cached_X' = Some(last'.X)
           /\ cached_y' = Some(last'.y) ]_vars


\* C5: in every fit that reuses the existing Problem Descriptor (warm
\* start, data unchanged: no build, the solver ran), every solver-
\* parameterized hyperparameter's live parameter holds the estimator's
\* current value of that hyperparameter when the solver is invoked, and an
\* optimal solve returns the solution for those values.
C5_WarmStartParameterRefresh ==
    (IsFit(last) /\ last.nAssemble = 0 /\ last.nSolve > 0)
        => /\ \A name \in cvx_parameter_constraints.names :
                Get(canonicals).parameters[name] = params[name]
           /\ last.status = "optimal" =>
                \A name \in cvx_parameter_constraints.names :
                    Get(coef).parameters[name] = params[name]

\* C5 witness: the only descriptor ever built was solved earlier with one
\* value of eta (the coefficients kept from that solve show it); a reuse
\* fit pushed another value and invoked the solver.
C5_Witness ==
    /\ IsFit(last) /\ last.nAssemble = 0 /\ last.nPush = 1 /\ last.nSolve = 1
    /\ nbuilds = 1
    /\ hasattr(coef) /\ Get(coef).kind = "ndarray"
    /\ Get(coef).parameters.eta # params.eta
    /\ Get(canonicals).parameters.eta = params.eta

\* C6 (as claimed): in a sequence of fits that all run with
\* warm_start=True, a fit whose (X, y) equals the data the current Problem
\* Descriptor was built from does not call the Problem Assembler, and the
\* descriptor is the identical object before and after the fit.
C6_NoRebuildOnUnchangedData ==
    [][ (IsFit(last') /\ Validated(last') /\ hasattr(canonicals)
            /\ array_equal2(Get(canonicals).X, last'.X)
            /\ array_equal1(Get(canonicals).y, last'.y))
        => /\ last'.nAssemble = 0
           /\ Get(canonicals').id = Get(canonicals).id ]_vars

\* C7 (as claimed): whenever the solver outcome is a failure (infeasible,
\* unbounded or solver error) fit ends in an error; it never returns
\* normally.
C7_SolverFailureSurfaced ==
    (IsFit(last) /\ SolverFailed(last)) => ~Returned(last)

\* C8 (as claimed): a fit on a previously fitted estimator that raises
\* leaves coef_, intercept_, canonicals_ (the live parameter values
\* included) and the warm-start cache exactly as they were.
C8_NoPartialSuccess ==
    [][ (IsFit(last') /\ hasattr(coef) /\ ~Returned(last'))
        => UNCHANGED estimator ]_vars

C10_ColdStartHistoryIndependent ==
    (IsFit(last) /\ Validated(last) /\ params.warm_start = FALSE)
        => /\ last.nAssemble = 1 /\ last.nPush = 0 /\ last.nSolve = 1
           /\ canonicals = Some(generate_problem(last.X, last.y, params,
                                    cvx_parameter_constraints, nbuilds))
           /\ last.status = "optimal" =>
                coef = Some(Solution(last.X, last.y, params,
                                     cvx_parameter_constraints))

\* C10 witness: a cold fit on an estimator that holds earlier descriptors
\* and a cache of other data, solved to optimality.
C10_Witness ==
    /\ IsFit(last) /\ Returned(last) /\ last.status = "optimal"
    /\ params.warm_start = FALSE
    /\ nbuilds >= 2
    /\ hasattr(cached_X) /\ ~array_equal2(Get(cached_X), last.X)
    /\ params.eta > 0


\* ------------------------------------------------- observations of a call
\* The events of the trace tr that are calls of the function named call.
Calls(tr, call) == { i \in 1..Len(tr) : tr[i].call = call }

\* The calls generate_problem makes, in the order the claim gives them.
AssemblyOrder ==
    << "Variable", "_generate_params", "_generate_auxiliaries",
       "_generate_objective", "_generate_constraints", "canonicals_" >>

\* The first event of every run of the Problem Assembler in the trace.
AssemblyStarts(tr) == Calls(tr, "Variable")

\* C11: every call of the Problem Assembler, from fit or direct, creates a
\* fresh decision variable of length n_features(X), then calls the
\* parameter translator, the auxiliaries hook, the objective hook and the
\* constraints hook, in that order and once each, and only then assigns
\* canonicals_; the objective and constraints hooks are given the
\* parameters and auxiliaries that the new descriptor stores, and the
\* descriptor stores the new variable.
C11_AssemblyOrder ==
    (last.nAssemble > 0) =>
        /\ Len(last.trace) >= Len(AssemblyOrder) * last.nAssemble
        /\ Cardinality(AssemblyStarts(last.trace)) = last.nAssemble
        /\ \A call \in { AssemblyOrder[k] : k \in 1..Len(AssemblyOrder) } :
                Cardinality(Calls(last.trace, call)) = last.nAssemble
        /\ \A i \in AssemblyStarts(last.trace) :
            /\ \A k \in 1..Len(AssemblyOrder) :
                    last.trace[i + k - 1].call = AssemblyOrder[k]
            /\ last.trace[i].len = n_features(last.X)
            /\ \A k \in 3..Len(AssemblyOrder) :
                    last.trace[i + k - 1].beta = last.trace[i].beta
        /\ LET i == CHOOSE j \in AssemblyStarts(last.trace) :
                        \A k \in AssemblyStarts(last.trace) : k <= j
               c == Get(canonicals)
           IN  /\ c.id = last.trace[i].beta
               /\ c.id = nbuilds
               /\ c.beta = last.trace[i].len
               /\ \A k \in 4..5 :
                    /\ last.trace[i + k - 1].auxiliaries = c.auxiliaries
                    /\ DOMAIN last.trace[i + k - 1].parameters
                            = DOMAIN c.parameters
               /\ c.objective = generate_objective(last.X, last.y, c.id,
                                    c.parameters, c.auxiliaries)
               /\ c.constraints = generate_constraints(last.X, last.y, c.id,
                                    c.parameters, c.auxiliaries)
               /\ c.problem = [minimize |-> c.objective,
                               constraints |-> c.constraints]

\* C11 witness: a warm-start fit that rebuilt for changed data on an
\* estimator that declares a solver parameter, and solved.
C11_Witness ==
    /\ IsFit(last) /\ last.nAssemble = 1 /\ last.nSolve = 1
    /\ params.warm_start = TRUE
    /\ cvx_parameter_constraints = CvxDeclEta
    /\ nbuilds >= 2
    /\ Len(last.trace) > Len(AssemblyOrder)


\* C12: in every fit, _set_param_values is invoked only when a Problem
\* Descriptor exists (built by an earlier call or earlier in this call,
\* never after the push) whose parameters hold a live parameter for every
\* solver-parameterized hyperparameter name; the push never fails for a
\* missing descriptor or a missing parameter.
C12_PushPrecondition ==
    (IsFit(last) /\ last.nPush > 0)
        => /\ hasattr(canonicals)
           /\ cvx_parameter_constraints.names
                \subseteq DOMAIN Get(canonicals).parameters
           /\ last.outcome # "AttributeError"
           /\ \A i \in Calls(last.trace, "_set_param_values") :
                \A j \in Calls(last.trace, "canonicals_") : j < i

\* C12 witness: a fit pushed the value of eta into the descriptor an
\* earlier call built, and solved.
C12_Witness ==
    /\ IsFit(last) /\ last.nPush = 1 /\ last.nAssemble = 0
    /\ Returned(last)
    /\ cvx_parameter_constraints = CvxDeclEta
    /\ "eta" \in DOMAIN Get(canonicals).parameters

\* C17 (as claimed): for the variant that declares no solver-parameterized
\* hyperparameters (_cvx_parameter_constraints is None), a fit with warm
\* start enabled, valid inputs and valid hyperparameters reaches the solver
\* invocation; the parameter push does not end the fit in an error.
C17_WarmStartWithoutSolverParameters ==
    (IsFit(last) /\ cvx_parameter_constraints = CvxDeclNone
        /\ params.warm_start = TRUE
        /\ validate_data(last.X, last.y) /\ ~ViolatesDeclared(params))
        => /\ last.nSolve >= 1
           /\ last.outcome # "TypeError"

\* C18: in every fit the Problem Assembler is called at most once, the
\* solver is invoked at most once and only after every build and push of
\* the call, and coef_ is written only after the solver was invoked.
C18_OneBuildOneSolve ==
    IsFit(last)
        => /\ last.nAssemble <= 1
           /\ last.nSolve <= 1
           /\ Cardinality(Calls(last.trace, "canonicals_")) = last.nAssemble
           /\ Cardinality(Calls(last.trace, "problem.solve")) = last.nSolve
           /\ \A i \in Calls(last.trace, "problem.solve") :
                \A j \in Calls(last.trace, "canonicals_")
                         \cup Calls(last.trace, "_set_param_values") : j < i
           /\ \A c \in Calls(last.trace, "coef_") :
                \E i \in Calls(last.trace, "problem.solve") : i < c

\* C18 witness: a warm-start fit that found the data changed, rebuilt
\* once, solved once and then wrote coef_.
C18_Witness ==
    /\ IsFit(last) /\ Returned(last)
    /\ last.nAssemble = 1 /\ last.nPush = 0 /\ last.nSolve = 1
    /\ params.warm_start = TRUE
    /\ hasattr(cached_X) /\ ~array_equal2(Get(cached_X), last.X)
    /\ Calls(last.trace, "coef_") # {}


\* =========================================================================
\* The parameter translator in full: _generate_params over declarations
\* that carry their constraint lists, and array-valued hyperparameters.
\* =========================================================================
MaxBound == 1          \* interval bounds range over -MaxBound..MaxBound and None
MaxConstraints == 2    \* a hyperparameter declares up to MaxConstraints constraints
MaxValue == 1          \* hyperparameter entries range over -MaxValue..MaxValue
MaxValueLen == 2       \* a sequence-valued hyperparameter has up to MaxValueLen entries

\* A hyperparameter value: a python scalar, a python sequence or an
\* ndarray; shape is << >> for a scalar and << n >> for n entries.
Scalar(v) == [kind |-> "scalar", shape |-> << >>, data |-> << v >>]
ListOf(d) == [kind |-> "list", shape |-> << Len(d) >>, data |-> d]
NdArray(shape, d) == [kind |-> "ndarray", shape |-> shape, data |-> d]

EntryValues == (0 - MaxValue)..MaxValue
HyperValues ==
    { Scalar(v) : v \in EntryValues }
        \cup { ListOf(d) : d \in UNION { [1..n -> 0..MaxValue] : n \in 1..MaxValueLen } }

\* np.asarray(value): the same entries as an ndarray of the same shape.
asarray(value) == NdArray(value.shape, value.data)

\* hasattr(value, "shape")
has_shape(value) == value.kind = "ndarray"

\* ---- sklearn constraint objects, as make_constraint returns them
NoBound == << >>
Bound(n) == << n >>
NA == "-"

ArrayLikes == [kind |-> "_ArrayLikes", type |-> NA, left |-> NoBound,
               right |-> NoBound, closed |-> NA]
Booleans == [kind |-> "_Booleans", type |-> NA, left |-> NoBound,
             right |-> NoBound, closed |-> NA]
NoneConstraint == [kind |-> "_NoneConstraint", type |-> NA, left |-> NoBound,
                   right |-> NoBound, closed |-> NA]
InstancesOf(t) == [kind |-> "_InstancesOf", type |-> t, left |-> NoBound,
                   right |-> NoBound, closed |-> NA]
Interval(t, l, r, c) == [kind |-> "Interval", type |-> t, left |-> l,
                         right |-> r, closed |-> c]

Bounds == { NoBound } \cup { Bound(n) : n \in (0 - MaxBound)..MaxBound }

\* The Interval objects sklearn accepts: left below right, and a closed
\* side has a bound.
Intervals ==
    { Interval(t, l, r, c) :
        t \in { "Integral", "Real" }, l \in Bounds, r \in Bounds,
        c \in { "left", "right", "both", "neither" } }

ValidInterval(i) ==
    /\ (i.left # NoBound /\ i.right # NoBound) => i.left[1] < i.right[1]
    /\ i.closed \in { "left", "both" } => i.left # NoBound
    /\ i.closed \in { "right", "both" } => i.right # NoBound

ConstraintValues ==
    { ArrayLikes, Booleans, NoneConstraint }
        \cup { InstancesOf(t) : t \in { "bool", "int", "str" } }
        \cup { i \in Intervals : ValidInterval(i) }

ConstraintLists ==
    UNION { [1..n -> ConstraintValues] : n \in 0..MaxConstraints }

\* _InstancesOf(type).is_satisfied_by(v) is isinstance(v, type); bool is a
\* subclass of int.
is_satisfied_by_True(c) == c.type \in { "bool", "int" }
is_satisfied_by_5(c) == c.type \in { "int" }

SignHints == { "nonneg", "pos", "nonpos", "neg" }
AlgebraicHints == SignHints \cup { "integer", "boolean" }


\* ---- cp.Parameter(value=..., **param_kwargs)
\* The library's behaviour is not part of this repository; it is an input
\* of the model.  attrs: whether more than one algebraic attribute (other
\* than boolean with integer) is refused; values: whether a value outside
\* an attribute's domain is refused.
Libraries == [attrs : BOOLEAN, values : BOOLEAN]

NoKwargs == [shape |-> Absent, attrs |-> {}]

too_many_attributes(attrs) ==
    Cardinality(attrs) > (IF { "boolean", "integer" } \subseteq attrs THEN 2 ELSE 1)

in_domain(v, attr) ==
    CASE attr = "nonneg" -> v >= 0
      [] attr = "pos" -> v > 0
      [] attr = "nonpos" -> v <= 0
      [] attr = "neg" -> v < 0
      [] attr = "boolean" -> v \in { 0, 1 }
      [] OTHER -> TRUE

\* The Parameter's shape is the shape keyword, () without it; a value of
\* another shape is refused.
cp_Parameter(value, kwargs, lib) ==
    LET shape == IF hasattr(kwargs.shape) THEN Get(kwargs.shape) ELSE << >>
        refused ==
            \/ value.shape # shape
            \/ lib.attrs /\ too_many_attributes(kwargs.attrs)
            \/ lib.values /\ \E i \in DOMAIN value.data, a \in kwargs.attrs :
                                ~in_domain(value.data[i], a)
    IN  IF refused THEN Absent
        ELSE Some([value |-> NdArray(shape, value.data), shape |-> shape,
                   attrs |-> kwargs.attrs])

\* lines 280-298: the keywords an Interval constraint sets
interval_kwargs_by_closure(c) ==
    (IF c.type = "Integral" THEN { "integer" } ELSE {})
        \cup (IF c.left # NoBound /\ c.left[1] >= 0
              THEN IF c.closed \in { "left", "both" } THEN { "nonneg" } ELSE { "pos" }
              ELSE {})
        \cup (IF c.right # NoBound /\ c.right[1] <= 0
              THEN IF c.closed \in { "right", "both" } THEN { "nonpos" } ELSE { "neg" }
              ELSE {})

interval_kwargs(c) ==
    (IF c.type = "Integral" THEN { "integer" } ELSE {})
        \cup (IF c.left # NoBound
              THEN IF c.left[1] = 0
                   THEN IF c.closed \in { "left", "both" }
                        THEN { "nonneg" } ELSE { "pos" }
                   ELSE IF c.left[1] > 0 THEN { "pos" } ELSE {}
              ELSE {})
        \cup (IF c.right # NoBound
              THEN IF c.right[1] = 0
                   THEN IF c.closed \in { "right", "both" }
                        THEN { "nonpos" } ELSE { "neg" }
                   ELSE IF c.right[1] < 0 THEN { "neg" } ELSE {}
              ELSE {})

\* lines 265-298: one constraint's effect on param_val and param_kwargs;
\* a keyword, once set, stays in param_kwargs.
apply_constraint(c, st) ==
    LET param_val == IF c.kind = "_ArrayLikes" /\ ~has_shape(st.param_val)
                     THEN asarray(st.param_val) ELSE st.param_val
        shape == IF c.kind = "_ArrayLikes" THEN Some(param_val.shape)
                 ELSE st.kwargs.shape
        added ==
            CASE c.kind = "_Booleans" -> { "boolean" }
              [] c.kind = "_InstancesOf" ->
                    IF is_satisfied_by_True(c) THEN { "boolean" }
                    ELSE IF is_satisfied_by_5(c) THEN { "integer" } ELSE {}
              [] c.kind = "Interval" -> interval_kwargs(c)
              [] OTHER -> {}
    IN  [st EXCEPT !.param_val = param_val,
                   !.kwargs = [shape |-> shape, attrs |-> @.attrs \cup added]]

\* lines 263-301: the loop over one hyperparameter's constraints; the
\* Parameter is created (again) at the end of every iteration, so a
\* ValueError of cp.Parameter ends the call at that iteration.
RECURSIVE constraint_loop(_, _, _, _)
constraint_loop(constraints, i, st, lib) ==
    IF i > Len(constraints) THEN st
    ELSE LET after == apply_constraint(constraints[i], st)
             made == cp_Parameter(after.param_val, after.kwargs, lib)
         IN  IF hasattr(made)
             THEN constraint_loop(constraints, i + 1,
                                  [after EXCEPT !.parameter = made], lib)
             ELSE [after EXCEPT !.raised = TRUE]

\* get_params(deep=False).items()
ParamNames == << "warm_start", "solver", "solver_options", "eta" >>

\* lines 244-303 for a declaration that carries its constraint lists:
\* [kind, names, constraints], constraints mapping each declared name to
\* its list.  The result is the namespace (a function from names to
\* Parameters), the keywords of the last cp.Parameter call per name, and
\* whether the call raised.
RECURSIVE generate_cvx_parameters(_, _, _, _, _)
generate_cvx_parameters(p, decl, lib, k, acc) ==
    LET cvx_constraints == IF decl.kind = "None" THEN {} ELSE decl.names
    IN  IF k > Len(ParamNames) \/ acc.raised THEN acc
        ELSE LET param_name == ParamNames[k]
             IN  IF param_name \notin cvx_constraints
                 THEN generate_cvx_parameters(p, decl, lib, k + 1, acc)
                 ELSE LET st == constraint_loop(decl.constraints[param_name], 1,
                                    [param_val |-> p[param_name], kwargs |-> NoKwargs,
                                     parameter |-> Absent, raised |-> FALSE], lib)
                          cvx_parameters ==
                              IF hasattr(st.parameter)
                              THEN [n \in DOMAIN acc.cvx_parameters \cup { param_name } |->
                                       IF n = param_name THEN Get(st.parameter)
                                       ELSE acc.cvx_parameters[n]]
                              ELSE acc.cvx_parameters
                      IN  generate_cvx_parameters(p, decl, lib, k + 1,
                              [cvx_parameters |-> cvx_parameters,
                               param_kwargs |-> [n \in DOMAIN acc.param_kwargs \cup { param_name } |->
                                       IF n = param_name THEN st.kwargs
                                       ELSE acc.param_kwargs[n]],
                               raised |-> st.raised])

NoParameters == [n \in {} |-> Absent]

translate(p, decl, lib) ==
    generate_cvx_parameters(p, decl, lib, 1,
        [cvx_parameters |-> NoParameters, param_kwargs |-> NoParameters,
         raised |-> FALSE])


\* ---- the translator as a program of its own: an estimator class whose
\* declaration and "eta" value are drawn from the bounded sets, on which
\* _generate_params is called.
DeclOf(constraints) ==
    [kind |-> "dict", names |-> { "eta" }, constraints |-> [n \in { "eta" } |-> constraints]]

DeclEmpty == [kind |-> "dict", names |-> {}, constraints |-> NoParameters]

TranslatorDecls ==
    { [kind |-> "None", names |-> {}, constraints |-> NoParameters], DeclEmpty }
        \cup { DeclOf(cs) : cs \in ConstraintLists }

HyperParams(eta) ==
    [warm_start |-> FALSE, solver |-> "None", solver_options |-> "None", eta |-> eta]

InitTranslator ==
    /\ cvx_parameter_constraints \in TranslatorDecls
    /\ params \in { HyperParams(eta) : eta \in HyperValues }
    /\ canonicals = Absent
    /\ cached_X = Absent
    /\ cached_y = Absent
    /\ coef = Absent
    /\ intercept = Absent
    /\ nbuilds = 0
    /\ last = NoCall

\* estimator._generate_params(X, y)
GenerateParams ==
    \E lib \in Libraries :
        LET r == translate(params, cvx_parameter_constraints, lib)
        IN  /\ last' = [op |-> "_generate_params",
                        outcome |-> IF r.raised THEN "ValueError" ELSE "returned",
                        result |-> r.cvx_parameters,
                        param_kwargs |-> r.param_kwargs]
            /\ UNCHANGED << cvx_parameter_constraints, params, canonicals,
                            cached_X, cached_y, coef, intercept, nbuilds >>

NextTranslator == GenerateParams

SpecTranslator == InitTranslator /\ [][NextTranslator]_vars

Translated(l) == l.op = "_generate_params" /\ l.outcome = "returned"

\* the hyperparameters declared solver-parameterized
Declared == cvx_parameter_constraints.names \cap { ParamNames[k] : k \in DOMAIN ParamNames }

\* C13: whenever the translator returns, its result holds, for every
\* hyperparameter declared solver-parameterized, one live parameter under
\* that name whose value is the hyperparameter's current value, whatever
\* the declared constraint list; it holds no parameter under another name,
\* and is empty when nothing is declared.
C13_TranslatorCompleteness ==
    Translated(last) =>
        /\ DOMAIN last.result = Declared
        /\ \A n \in Declared :
              /\ last.result[n].value.data = params[n].data
              /\ last.result[n].value.shape = params[n].shape

\* C14: a live parameter the translator produces carries at most one of
\* the algebraic properties nonneg, pos, nonpos, neg, integer, boolean.
C14_AtMostOneAlgebraicProperty ==
    Translated(last) =>
        \A n \in DOMAIN last.result :
            Cardinality(last.result[n].attrs \cap AlgebraicHints) <= 1


\* ---- the interval hint rule
HasLower(c) == c.left # NoBound
HasUpper(c) == c.right # NoBound
LowerInclusive(c) == c.closed \in { "left", "both" }
UpperInclusive(c) == c.closed \in { "right", "both" }

\* The hints as the rule is worded: the inclusivity of a zero or positive
\* lower bound (zero or negative upper bound) decides between the two
\* sign hints.
HintsByInclusivity(c) ==
    { h \in AlgebraicHints :
        \/ h = "integer" /\ c.type = "Integral"
        \/ h = "nonneg" /\ HasLower(c) /\ c.left[1] >= 0 /\ LowerInclusive(c)
        \/ h = "pos" /\ HasLower(c) /\ c.left[1] >= 0 /\ ~LowerInclusive(c)
        \/ h = "nonpos" /\ HasUpper(c) /\ c.right[1] <= 0 /\ UpperInclusive(c)
        \/ h = "neg" /\ HasUpper(c) /\ c.right[1] <= 0 /\ ~UpperInclusive(c) }

\* The hints with inclusivity deciding only for a bound equal to zero: a
\* strictly positive lower bound is pos, a strictly negative upper bound
\* is neg, inclusive or not.
HintsZeroByInclusivity(c) ==
    { h \in AlgebraicHints :
        \/ h = "integer" /\ c.type = "Integral"
        \/ h = "nonneg" /\ HasLower(c) /\ c.left[1] = 0 /\ LowerInclusive(c)
        \/ h = "pos" /\ HasLower(c)
              /\ (c.left[1] > 0 \/ (c.left[1] = 0 /\ ~LowerInclusive(c)))
        \/ h = "nonpos" /\ HasUpper(c) /\ c.right[1] = 0 /\ UpperInclusive(c)
        \/ h = "neg" /\ HasUpper(c)
              /\ (c.right[1] < 0 \/ (c.right[1] = 0 /\ ~UpperInclusive(c))) }

\* The constraint list of a declared hyperparameter.
ConstraintsOf(n) == cvx_parameter_constraints.constraints[n]

\* C15 (as claimed): an Interval constraint yields the non-negative hint
\* for an inclusive and the strictly-positive hint for an exclusive lower
\* bound that is zero or positive, symmetrically non-positive / strictly-
\* negative for an upper bound that is zero or negative, the integer hint
\* when integer-typed, and no sign hint otherwise: a lone Interval yields
\* exactly these hints, and every Interval of a list yields at least them.
C15_IntervalHintRule ==
    last.op = "_generate_params" =>
        \A n \in Declared :
            /\ (Len(ConstraintsOf(n)) = 1 /\ ConstraintsOf(n)[1].kind = "Interval")
                  => last.param_kwargs[n].attrs = HintsByInclusivity(ConstraintsOf(n)[1])
            /\ Translated(last) =>
                  \A i \in DOMAIN ConstraintsOf(n) :
                      ConstraintsOf(n)[i].kind = "Interval" =>
                          HintsByInclusivity(ConstraintsOf(n)[i]) \subseteq last.result[n].attrs

\* C15 (amended): as above, except that inclusivity decides only for a
\* bound equal to zero; a strictly positive lower bound yields the
\* strictly-positive hint and a strictly negative upper bound the
\* strictly-negative hint whether or not the bound is inclusive.
C15_IntervalHintRuleAmended ==
    last.op = "_generate_params" =>
        \A n \in Declared :
            /\ (Len(ConstraintsOf(n)) = 1 /\ ConstraintsOf(n)[1].kind = "Interval")
                  => last.param_kwargs[n].attrs = HintsZeroByInclusivity(ConstraintsOf(n)[1])
            /\ Translated(last) =>
                  \A i \in DOMAIN ConstraintsOf(n) :
                      ConstraintsOf(n)[i].kind = "Interval" =>
                          HintsZeroByInclusivity(ConstraintsOf(n)[i]) \subseteq last.result[n].attrs

\* An inclusive, strictly positive lower bound of an integer-typed Interval
\* has been translated to the hints pos and integer.
C15_Witness ==
    /\ Translated(last)
    /\ "eta" \in Declared
    /\ ConstraintsOf("eta") = << Interval("Integral", Bound(1), NoBound, "left") >>
    /\ last.result["eta"].attrs = { "pos", "integer" }


\* =========================================================================
\* _set_param_values in full: array-valued hyperparameters written into
\* live parameters that have a shape.
\* =========================================================================
\* number of entries of an array of the given shape (0-d or 1-d)
Size(shape) == IF shape = << >> THEN 1 ELSE shape[1]

\* np.ones_like(a)
ones_like(a) == NdArray(a.shape, [i \in 1..Size(a.shape) |-> 1])

\* value * b for a value of length 1: numpy broadcasts shape (1,) against
\* b's shape, which gives (1,) for a 0-d b and b's shape for a 1-d b.
multiply(value, b) ==
    LET shape == IF b.shape = << >> THEN << 1 >> ELSE b.shape
    IN  NdArray(shape, [i \in 1..Size(shape) |-> value.data[1] * b.data[i]])

\* isinstance(value, np.ndarray | Sequence)
is_sequence(value) == value.kind \in { "list", "ndarray" }

\* lines 223-227: the value handed to the parameter
value_to_assign(value, cvx_parameter) ==
    IF is_sequence(value)
    THEN IF Len(value.data) = 1
         THEN multiply(value, ones_like(cvx_parameter.value))
         ELSE asarray(value)
    ELSE value

\* cvx_parameter.value = value: the library refuses a value whose shape is
\* not the parameter's, and (an input of the model) one outside the
\* domain of the parameter's attributes.
value_refused(cvx_parameter, value, lib) ==
    \/ value.shape # cvx_parameter.shape
    \/ lib.values /\ \E i \in DOMAIN value.data, a \in cvx_parameter.attrs :
                        ~in_domain(value.data[i], a)

\* lines 219-228 over get_params() in order; st is [parameters, outcome].
RECURSIVE set_cvx_parameter_values(_, _, _, _, _, _)
set_cvx_parameter_values(st, p, decl, lib, k, present) ==
    IF k > Len(ParamNames) \/ st.outcome # "running" THEN st
    ELSE LET parameter == ParamNames[k]
         IN  IF decl.kind = "None" THEN [st EXCEPT !.outcome = "TypeError"]
             ELSE IF parameter \notin decl.names
             THEN set_cvx_parameter_values(st, p, decl, lib, k + 1, present)
             ELSE IF ~present \/ parameter \notin DOMAIN st.parameters
             THEN [st EXCEPT !.outcome = "AttributeError"]
             ELSE LET cvx_parameter == st.parameters[parameter]
                      value == value_to_assign(p[parameter], cvx_parameter)
                  IN  IF value_refused(cvx_parameter, value, lib)
                      THEN [st EXCEPT !.outcome = "ValueError"]
                      ELSE set_cvx_parameter_values(
                               [st EXCEPT !.parameters[parameter].value =
                                              NdArray(value.shape, value.data)],
                               p, decl, lib, k + 1, present)

\* constraint.is_satisfied_by(value), for the values of this model (integer
\* scalars and sequences of integers)
in_interval(v, c) ==
    /\ HasLower(c) => IF LowerInclusive(c) THEN v >= c.left[1] ELSE v > c.left[1]
    /\ HasUpper(c) => IF UpperInclusive(c) THEN v <= c.right[1] ELSE v < c.right[1]

is_satisfied_by(c, value) ==
    CASE c.kind = "_ArrayLikes" -> is_sequence(value)
      [] c.kind = "Interval" -> ~is_sequence(value) /\ in_interval(value.data[1], c)
      [] c.kind = "_InstancesOf" -> ~is_sequence(value) /\ c.type = "int"
      [] OTHER -> FALSE

\* _validate_params, for the declared hyperparameters: the value satisfies
\* one of the declared constraints.
valid_cvx_params(p, decl) ==
    \A n \in decl.names :
        \E i \in DOMAIN decl.constraints[n] :
            is_satisfied_by(decl.constraints[n][i], p[n])

NonNegative == Interval("Real", Bound(0), NoBound, "left")

PushDecls ==
    { DeclEmpty, DeclOf(<< ArrayLikes >>), DeclOf(<< NonNegative >>),
      DeclOf(<< ArrayLikes, NonNegative >>), DeclOf(<< NonNegative, ArrayLikes >>) }

InitPush ==
    /\ cvx_parameter_constraints \in PushDecls
    /\ params \in { HyperParams(eta) : eta \in HyperValues }
    /\ valid_cvx_params(params, cvx_parameter_constraints)
    /\ canonicals = Absent
    /\ cached_X = Absent
    /\ cached_y = Absent
    /\ coef = Absent
    /\ intercept = Absent
    /\ nbuilds = 0
    /\ last = NoCall

\* generate_problem, as far as the parameters go: canonicals_ is replaced
\* by a descriptor holding the translator's result, unless it raised.
BuildParameters ==
    \E lib \in Libraries :
        LET r == translate(params, cvx_parameter_constraints, lib)
        IN  /\ canonicals' = IF r.raised THEN canonicals
                             ELSE Some([parameters |-> r.cvx_parameters])
            /\ last' = [op |-> "generate_problem",
                        outcome |-> IF r.raised THEN "ValueError" ELSE "returned",
                        before |-> canonicals]
            /\ UNCHANGED << cvx_parameter_constraints, params, cached_X,
                            cached_y, coef, intercept, nbuilds >>

\* set_params(eta=v), with a value _validate_params accepts
SetEta ==
    \E v \in HyperValues :
        /\ v # params.eta
        /\ "eta" \in cvx_parameter_constraints.names
        /\ valid_cvx_params([params EXCEPT !.eta = v], cvx_parameter_constraints)
        /\ params' = [params EXCEPT !.eta = v]
        /\ last' = NoCall
        /\ UNCHANGED << cvx_parameter_constraints, canonicals, cached_X,
                        cached_y, coef, intercept, nbuilds >>

\* estimator._set_param_values()
PushValues ==
    \E lib \in Libraries :
        LET present == hasattr(canonicals)
            before == IF present THEN Get(canonicals).parameters ELSE NoParameters
            r == set_cvx_parameter_values(
                     [parameters |-> before, outcome |-> "running"],
                     params, cvx_parameter_constraints, lib, 1, present)
        IN  /\ canonicals' = IF present THEN Some([parameters |-> r.parameters])
                             ELSE canonicals
            /\ last' = [op |-> "_set_param_values",
                        outcome |-> IF r.outcome = "running" THEN "returned"
                                    ELSE r.outcome,
                        before |-> canonicals]
            /\ UNCHANGED << cvx_parameter_constraints, params, cached_X,
                            cached_y, coef, intercept, nbuilds >>

NextPush == BuildParameters \/ SetEta \/ PushValues

SpecPush == InitPush /\ [][NextPush]_vars

\* the state right after a push that met its precondition: a descriptor
\* existed whose parameters carry every declared name
Pushed(l) ==
    /\ l.op = "_set_param_values"
    /\ hasattr(l.before)
    /\ Declared \subseteq DOMAIN Get(l.before).parameters

\* a value that is a scalar or a sequence of length one
IsScalarLike(value) == ~is_sequence(value) \/ Len(value.data) = 1

\* C16: after a push, every live parameter has the shape it had before;
\* the parameter of every declared hyperparameter holds the hyperparameter's
\* current value, broadcast to that shape when the value is a scalar or a
\* sequence of length one and element for element when it is a longer
\* sequence (of the parameter's shape); every other parameter is as it was.
C16_PushBroadcast ==
    Pushed(last) =>
        LET before == Get(last.before).parameters
            after == Get(canonicals).parameters
        IN  /\ DOMAIN after = DOMAIN before
            /\ \A n \in DOMAIN after :
                  /\ after[n].shape = before[n].shape
                  /\ after[n].value.shape = before[n].shape
                  /\ n \notin Declared => after[n] = before[n]
                  /\ n \in Declared =>
                        IF IsScalarLike(params[n])
                        THEN after[n].value.data =
                                 [i \in 1..Size(before[n].shape) |-> params[n].data[1]]
                        ELSE params[n].shape = before[n].shape =>
                                 after[n].value.data = params[n].data


\* =========================================================================
\* TikhonovMixin._generate_objective
\* =========================================================================
MaxSamples == 2        \* the matrices of this part have 1..MaxSamples rows
MaxBeta == 2           \* decision-variable identities 1..MaxBeta

\* all matrices of r rows and c columns with entries 0..MaxEntry
Matrices(r, c) == [1..r -> [1..c -> 0..MaxEntry]]

TikhonovX == UNION { Matrices(r, c) : r \in 1..MaxSamples, c \in 1..MaxFeatures }

\* a matrix held in an attribute that may also hold None
Matrix(rows) == [kind |-> "ndarray", rows |-> rows]

\* self.tikhonov_w: never assigned, None, or a matrix
TikhonovWValues ==
    { Absent, Some(PyNone) }
        \cup { Some(Matrix(w)) : w \in UNION { Matrices(c, c) : c \in 1..MaxFeatures } }

\* np.eye(n)
eye(n) == [i \in 1..n |-> [j \in 1..n |-> IF i = j THEN 1 ELSE 0]]

\* lines 439-442: the weighting matrix
tikhonov_weights_identity(w, X) == eye(n_features(X))

tikhonov_weights(w, X) ==
    IF hasattr(w) /\ Get(w).kind # "None" THEN Get(w).rows ELSE eye(n_features(X))

\* lines 444-448.  The result is the sum expression and the calls made in
\* order; `tikhonov_w @ beta` raises ValueError when the matrix has not one
\* column per feature, `parameters.eta` AttributeError when there is no
\* such parameter.
tikhonov_generate_objective(w, X, y, beta, parameters, auxiliaries) ==
    LET tikhonov_w == tikhonov_weights(w, X)
        c0 == 2 * n_samples(X)
        objective == generate_objective(X, y, beta, parameters, auxiliaries)
        called == << Event("super()._generate_objective", beta,
                           DOMAIN parameters, auxiliaries) >>
    IN  IF "eta" \notin DOMAIN parameters
        THEN [outcome |-> "AttributeError", objective |-> PyNone, trace |-> called]
        ELSE IF n_features(tikhonov_w) # n_features(X)
        THEN [outcome |-> "ValueError", objective |-> PyNone, trace |-> called]
        ELSE [outcome |-> "returned",
              objective |->
                  [expr |-> "add",
                   left |-> objective,
                   right |-> [expr |-> "mul", c0 |-> c0, parameter |-> "eta",
                              sum_squares |-> [W |-> tikhonov_w, beta |-> beta]]],
              trace |-> Append(called, Event("cp.sum_squares", beta, NoArg, NoArg))]

\* An estimator of a Tikhonov variant (which declares "eta", or, wrongly,
\* nothing) with its tikhonov_w attribute drawn from the bounded set.
InitTikhonov ==
    /\ cvx_parameter_constraints \in Variants
    /\ params \in { [warm_start |-> FALSE, solver |-> "None",
                     solver_options |-> "None", eta |-> eta, tikhonov_w |-> w] :
                        eta \in EtaValues, w \in TikhonovWValues }
    /\ canonicals = Absent
    /\ cached_X = Absent
    /\ cached_y = Absent
    /\ coef = Absent
    /\ intercept = Absent
    /\ nbuilds = 0
    /\ last = NoCall

\* estimator._generate_objective(X, y, beta, parameters, auxiliaries), with
\* the parameters the translator gives for the current hyperparameters
TikhonovObjective ==
    \E X \in TikhonovX, beta \in 1..MaxBeta,
       auxiliaries \in { PyNone, [kind |-> "SimpleNamespace"] } :
        LET y == [i \in 1..n_samples(X) |-> 0]
            parameters == generate_params(params, cvx_parameter_constraints)
            r == tikhonov_generate_objective(params.tikhonov_w, X, y, beta,
                                             parameters, auxiliaries)
        IN  /\ last' = [op |-> "_generate_objective", X |-> X, y |-> y,
                        beta |-> beta, parameters |-> parameters,
                        auxiliaries |-> auxiliaries, outcome |-> r.outcome,
                        objective |-> r.objective, trace |-> r.trace]
            /\ UNCHANGED << cvx_parameter_constraints, params, canonicals,
                            cached_X, cached_y, coef, intercept, nbuilds >>

NextTikhonov == TikhonovObjective

SpecTikhonov == InitTikhonov /\ [][NextTikhonov]_vars

ObjectiveBuilt(l) == l.op = "_generate_objective" /\ l.outcome = "returned"

\* whether the user has supplied a weighting matrix
WeightsSet == params.tikhonov_w # Absent /\ params.tikhonov_w[1].kind = "ndarray"

\* the identity matrix of size n, row by row
Identity(n) == [i \in 1..n |-> [j \in 1..i - 1 |-> 0] \o << 1 >> \o [j \in 1..n - i |-> 0]]

\* C19: the Tikhonov objective is a sum whose first term is what the next
\* implementation returns for the same X, y, decision variable, parameters
\* and auxiliaries, obtained before the penalty is formed, and whose second
\* term is 2 * n_samples * eta * sum_squares(W @ beta), with W the
\* tikhonov_w attribute when set and the identity of size n_features
\* otherwise.
C19_TikhonovComposition ==
    ObjectiveBuilt(last) =>
        /\ last.trace[1].call = "super()._generate_objective"
        /\ last.objective.expr = "add"
        /\ last.objective.left =
              [expr |-> "objective", X |-> last.X, y |-> last.y, beta |-> last.beta,
               parameters |-> DOMAIN last.parameters,
               auxiliaries |-> last.auxiliaries]
        /\ last.objective.right.expr = "mul"
        /\ last.objective.right.c0 = Len(last.X) + Len(last.X)
        /\ last.objective.right.parameter = "eta"
        /\ last.objective.right.sum_squares.beta = last.beta
        /\ last.objective.right.sum_squares.W =
              IF WeightsSet THEN params.tikhonov_w[1].rows
              ELSE Identity(Len(last.X[1]))

\* The objective has been built for two samples with a user-supplied
\* weighting matrix that is not the identity.
C19_Witness ==
    /\ ObjectiveBuilt(last)
    /\ Len(last.X) = 2
    /\ WeightsSet
    /\ last.objective.right.sum_squares.W # Identity(Len(last.X[1]))
    /\ last.objective.right.c0 = 4

====
